---- MODULE Spec2Model ----
(***************************************************************************)
(* A model of openweatherwrap's API clients (src/openweatherwrap/api.py,   *)
(* src/openweatherwrap/errors.py): construction of the six client classes, *)
(* the thirteen public operations, the URLs they request and the outcome   *)
(* (returned value or raised exception) each one hands to its caller.      *)
(*                                                                         *)
(* Strings are sequences of tokens.  A token is an indivisible run of      *)
(* characters ("onecall?", "&", "lang=", a digit, ...), chosen so that     *)
(* every pattern the code passes to str.replace starts and ends on a token *)
(* boundary; Replace then is str.replace.                                  *)
(* Numbers carry their Python type and their value in halves (h = 2 * x),  *)
(* so that 51.5 and -0.5 are values and str() of an int differs from str() *)
(* of the equal float.                                                     *)
(***************************************************************************)
EXTENDS Integers, Sequences, FiniteSets, TLC

(***************************************************************************)
(* Bounds of the model.                                                    *)
(***************************************************************************)
\* HTTP requests one client may issue before the model stops calling it
MaxCalls == 2
\* how far (in halves of a degree) the coordinates tried lie outside the range
CoordSlack == 1
\* how far outside [1,5] the geocoding limits tried lie
LimitSlack == 1

(***************************************************************************)
(* Program constants.                                                      *)
(***************************************************************************)
LatMin == -90
LatMax == 90
LonMin == -180
LonMax == 180
LimitMin == 1
LimitMax == 5
MinTimestamp == 283996800
StatusOk == 200
StatusCreated == 201
StatusSubscription == 400000
StatusUnauthorized == 401
StatusNotFound == 404
StatusTooMany == 429

(***************************************************************************)
(* Python values and str().                                                *)
(***************************************************************************)
Int_(n) == [t |-> "int", h |-> 2 * n]
Float_(h) == [t |-> "float", h |-> h]
NaN == [t |-> "nan", h |-> 0]
StrVal == [t |-> "str", h |-> 0]

Abs(n) == IF n < 0 THEN -n ELSE n

DigitChars == <<"0", "1", "2", "3", "4", "5", "6", "7", "8", "9">>

RECURSIVE Digits(_)
Digits(n) ==
    IF n < 10 THEN <<DigitChars[n + 1]>>
    ELSE Digits(n \div 10) \o <<DigitChars[(n % 10) + 1]>>

Sign(n) == IF n < 0 THEN <<"-">> ELSE <<>>

\* str(int)
StrInt(n) == Sign(n) \o Digits(Abs(n))

\* str(float) of the float h / 2
StrFloat(h) ==
    Sign(h) \o Digits(Abs(h) \div 2) \o <<".">>
            \o <<IF Abs(h) % 2 = 1 THEN "5" ELSE "0">>

\* what an f-string or str.format writes for a value
Str(v) ==
    CASE v.t = "int" -> StrInt(v.h \div 2)
      [] v.t = "float" -> StrFloat(v.h)
      [] v.t = "nan" -> <<"nan">>
      [] OTHER -> <<"abc">>

(***************************************************************************)
(* str.replace and str.join on token sequences.                            *)
(***************************************************************************)
StartsWith(s, p) == Len(s) >= Len(p) /\ SubSeq(s, 1, Len(p)) = p

RECURSIVE Replace(_, _, _)
Replace(s, old, new) ==
    IF Len(s) = 0 THEN <<>>
    ELSE IF StartsWith(s, old)
         THEN new \o Replace(SubSeq(s, Len(old) + 1, Len(s)), old, new)
         ELSE <<Head(s)>> \o Replace(Tail(s), old, new)

RECURSIVE Join(_)
Join(items) ==
    IF Len(items) = 0 THEN <<>>
    ELSE IF Len(items) = 1 THEN <<items[1]>>
    ELSE <<items[1], ",">> \o Join(Tail(items))

(***************************************************************************)
(* Inputs: keys, languages, units, modes, locations, geocoder answers.     *)
(***************************************************************************)
\* keys: a plain one, and one that holds text the operations search the URL for
Keys == {<<"k">>, <<"onecall?", "&", "lang=", "en">>}
\* the clients without a location are also tried with the empty key
BareKeys == Keys \cup {<<>>}
Languages == {<<"en">>, <<>>}
UnitsSet == {<<"metric">>}
Modes == {<<"json">>, <<"xml">>, <<"html">>, <<"yaml">>}
Counts == {-1, 0, 3}

\* coordinate pairs inside the range, its four corners' values among them
ValidPairs ==
    {<<Int_(LatMin), Int_(LonMin)>>, <<Int_(LatMax), Int_(LonMax)>>,
     <<Float_(103), Float_(-1)>>}

\* coordinate pairs outside the range, not a number, or not numeric
BadPairs ==
    UNION {{<<Float_(2 * LatMin - s), Int_(0)>>, <<Float_(2 * LatMax + s), Int_(0)>>,
            <<Int_(0), Float_(2 * LonMin - s)>>, <<Int_(0), Float_(2 * LonMax + s)>>}
           : s \in 1..CoordSlack}
        \cup {<<NaN, Int_(0)>>, <<StrVal, Int_(0)>>, <<Int_(0), StrVal>>}

\* a location as the caller passes it: a tuple, a list, or a place name
Tuple_(elems) == [form |-> "tuple", elems |-> elems]
List_(elems) == [form |-> "list", elems |-> elems]
Text_ == [form |-> "text", elems |-> <<>>]
NoLocation == [form |-> "none", elems |-> <<>>]

Locations ==
    {Tuple_(p) : p \in ValidPairs \cup BadPairs}
        \cup {Tuple_(<<Int_(0)>>), Tuple_(<<Int_(0), Int_(0), Int_(0)>>),
              List_(<<Float_(2 * LatMax + 1), Int_(0)>>), Text_}

\* what geolocator.geocode answers: None, or a place with coordinates
NoMatch == [found |-> FALSE, lat |-> Float_(0), lon |-> Float_(0)]
GeoAnswers == {NoMatch, [found |-> TRUE, lat |-> Float_(-67), lon |-> Float_(301)]}

(***************************************************************************)
(* The client object.                                                      *)
(***************************************************************************)
NoClient ==
    [cls |-> "none", api_key |-> <<>>, location |-> <<>>, language |-> <<>>,
     units |-> <<>>, mode |-> <<>>, count |-> 0, url |-> <<>>]

MsgLocationNotFound == "Location not found. Please provide a valid location."
MsgLocationTuple == "Location must be a tuple of (latitude, longitude)."
MsgLatLon ==
    "Latitude must be between -90 and 90, and longitude must be between -180 and 180."
MsgModeCurrent == "Mode must be either 'xml' or 'html' or 'json."
MsgModeForecast == "Mode must be either 'xml' or 'json'."
MsgLimit == "Limit must be between 1 and 5."
MsgTimestamp ==
    "Timestamp must be greater than or equal to January 1, 1979 (283996800)."
MsgApiKey == "API key must be provided."
MsgCompare == "'<=' not supported between instances of 'int' and 'str'"

\* isinstance(coord, (int, float))
IsNumber(v) == v.t \in {"int", "float", "nan"}

\* InRange with the range's limits excluded
InRangeStrict(lat, lon) ==
    /\ lat.t # "nan"
    /\ lon.t # "nan"
    /\ 2 * LatMin < lat.h /\ lat.h < 2 * LatMax
    /\ 2 * LonMin < lon.h /\ lon.h < 2 * LonMax

\* -90 <= lat <= 90 and -180 <= lon <= 180, for numbers (every comparison
\* with nan is False)
InRange(lat, lon) ==
    /\ lat.t # "nan"
    /\ lon.t # "nan"
    /\ 2 * LatMin <= lat.h /\ lat.h <= 2 * LatMax
    /\ 2 * LonMin <= lon.h /\ lon.h <= 2 * LonMax

\* the result of a constructor: the object, or the exception it raised, and
\* the number of geocoder lookups it made
Built(c, geo) == [ok |-> TRUE, type |-> "", text |-> "", geo |-> geo, client |-> c]
Failed(type, text, geo) ==
    [ok |-> FALSE, type |-> type, text |-> text, geo |-> geo, client |-> NoClient]

\* BaseInit taking the geocoder's longitude for the latitude
BaseInitSwapped(api_key, location, language, units, g) ==
    LET self == [NoClient EXCEPT !.cls = "OpenWeatherMapAPI",
                                 !.api_key = api_key,
                                 !.location = location.elems,
                                 !.language = language,
                                 !.units = units]
    IN  IF location.form # "tuple"
        THEN IF g.found
             THEN Built([self EXCEPT !.location = <<g.lon, g.lat>>], 1)
             ELSE Failed("ValueError", MsgLocationNotFound, 1)
        ELSE IF \/ Len(location.elems) # 2
                \/ ~ \A i \in 1..Len(location.elems) : IsNumber(location.elems[i])
             THEN Failed("ValueError", MsgLocationTuple, 0)
             ELSE IF ~ InRange(location.elems[1], location.elems[2])
                  THEN Failed("ValueError", MsgLatLon, 0)
                  ELSE Built(self, 0)

\* OpenWeatherMapAPI.__init__; g is the geocoder's answer, used if asked
BaseInit(api_key, location, language, units, g) ==
    LET self == [NoClient EXCEPT !.cls = "OpenWeatherMapAPI",
                                 !.api_key = api_key,
                                 !.location = location.elems,
                                 !.language = language,
                                 !.units = units]
    IN  IF location.form # "tuple"
        THEN IF g.found
             THEN Built([self EXCEPT !.location = <<g.lat, g.lon>>], 1)
             ELSE Failed("ValueError", MsgLocationNotFound, 1)
        ELSE IF \/ Len(location.elems) # 2
                \/ ~ \A i \in 1..Len(location.elems) : IsNumber(location.elems[i])
             THEN Failed("ValueError", MsgLocationTuple, 0)
             ELSE IF ~ InRange(location.elems[1], location.elems[2])
                  THEN Failed("ValueError", MsgLatLon, 0)
                  ELSE Built(self, 0)

Host25 == "https://api.openweathermap.org/data/2.5/"
Host30 == "https://api.openweathermap.org/data/3.0/"
HostGeo == "https://api.openweathermap.org/geo/1.0/"

Param(name, value) == <<"&", name>> \o value

\* OneCallAPI.__init__
OneCallInit(api_key, location, language, units, g) ==
    LET b == BaseInit(api_key, location, language, units, g)
        self == b.client
    IN  IF ~ b.ok THEN b
        ELSE Built([self EXCEPT
                 !.cls = "OneCallAPI",
                 !.url = <<Host30, "onecall?", "lat=">> \o Str(self.location[1])
                         \o Param("lon=", Str(self.location[2]))
                         \o Param("appid=", self.api_key)
                         \o Param("lang=", self.language)
                         \o Param("units=", self.units)], b.geo)

\* CurrentWeatherAPI.__init__
CurrentWeatherInit(api_key, location, language, units, mode, g) ==
    LET b == BaseInit(api_key, location, language, units, g)
        self == [b.client EXCEPT !.mode = mode]
    IN  IF ~ b.ok THEN b
        ELSE IF mode \notin {<<"xml">>, <<"html">>, <<"json">>}
             THEN Failed("ValueError", MsgModeCurrent, b.geo)
             ELSE Built([self EXCEPT
                 !.cls = "CurrentWeatherAPI",
                 !.url = <<Host25, "weather?", "lat=">> \o Str(self.location[1])
                         \o Param("lon=", Str(self.location[2]))
                         \o Param("appid=", self.api_key)
                         \o Param("lang=", self.language)
                         \o Param("units=", self.units)
                         \o Param("mode=", self.mode)], b.geo)

\* FiveDayInit taking html as well
FiveDayInitHtml(api_key, location, count, language, units, mode, g) ==
    LET b == BaseInit(api_key, location, language, units, g)
        self == [b.client EXCEPT !.mode = mode, !.count = count]
        url == <<Host25, "forecast?", "lat=">> \o Str(self.location[1])
                   \o Param("lon=", Str(self.location[2]))
                   \o Param("appid=", self.api_key)
                   \o Param("lang=", self.language)
                   \o Param("units=", self.units)
                   \o Param("mode=", self.mode)
    IN  IF ~ b.ok THEN b
        ELSE IF mode \notin {<<"xml">>, <<"json">>, <<"html">>}
             THEN Failed("ValueError", MsgModeForecast, b.geo)
             ELSE Built([self EXCEPT
                 !.cls = "FiveDayForecast",
                 !.url = IF self.count > 0
                         THEN url \o Param("cnt=", StrInt(self.count))
                         ELSE url], b.geo)

\* FiveDayForecast.__init__
FiveDayInit(api_key, location, count, language, units, mode, g) ==
    LET b == BaseInit(api_key, location, language, units, g)
        self == [b.client EXCEPT !.mode = mode, !.count = count]
        url == <<Host25, "forecast?", "lat=">> \o Str(self.location[1])
                   \o Param("lon=", Str(self.location[2]))
                   \o Param("appid=", self.api_key)
                   \o Param("lang=", self.language)
                   \o Param("units=", self.units)
                   \o Param("mode=", self.mode)
    IN  IF ~ b.ok THEN b
        ELSE IF mode \notin {<<"xml">>, <<"json">>}
             THEN Failed("ValueError", MsgModeForecast, b.geo)
             ELSE Built([self EXCEPT
                 !.cls = "FiveDayForecast",
                 !.url = IF self.count > 0
                         THEN url \o Param("cnt=", StrInt(self.count))
                         ELSE url], b.geo)

\* AirPollutionAPI.__init__ (language 'en' and units 'standard' by default)
AirPollutionInit(api_key, location, g) ==
    LET b == BaseInit(api_key, location, <<"en">>, <<"standard">>, g)
        self == b.client
    IN  IF ~ b.ok THEN b
        ELSE Built([self EXCEPT
                 !.cls = "AirPollutionAPI",
                 !.url = <<Host25, "air_pollution?", "lat=">>
                         \o Str(self.location[1])
                         \o Param("lon=", Str(self.location[2]))
                         \o Param("appid=", self.api_key)], b.geo)

Origin == Tuple_(<<Float_(0), Float_(0)>>)

\* GeocodingAPI.__init__
GeocodingInit(api_key) ==
    LET b == BaseInit(api_key, Origin, <<"en">>, <<"standard">>, NoMatch)
        self == b.client
    IN  IF ~ b.ok THEN b
        ELSE Built([self EXCEPT
                 !.cls = "GeocodingAPI",
                 !.url = <<HostGeo, "direct?">> \o Param("appid=", self.api_key)],
                   b.geo)

\* WeatherStationAPI.__init__
WeatherStationInit(api_key) ==
    IF Len(api_key) = 0
    THEN Failed("ValueError", MsgApiKey, 0)
    ELSE LET b == BaseInit(api_key, Origin, <<"en">>, <<"standard">>, NoMatch)
             self == b.client
         IN  IF ~ b.ok THEN b
             ELSE Built([self EXCEPT
                      !.cls = "WeatherStationAPI",
                      !.url = <<Host30, "stations?", "appid=">> \o self.api_key],
                        b.geo)

(***************************************************************************)
(* Responses of the server, and what an operation hands to its caller.     *)
(***************************************************************************)
\* the codes an HTTP server can send lie in 100..599; 400000 is the literal of
\* the status switch
Statuses == {100, 200, 201, 400, 401, 404, 429, 500, 599, 400000}

Expected ==
    [kind |-> "json_expected", text |-> "{'weather_overview': 'clear'}",
     message |-> "", overview |-> "clear"]
WithMessage ==
    [kind |-> "json_message", text |-> "{'cod': 401, 'message': 'Invalid API key'}",
     message |-> "Invalid API key", overview |-> ""]
JsonArray == [kind |-> "json_array", text |-> "[]", message |-> "", overview |-> ""]
Xml == [kind |-> "xml_expected", text |-> "<current/>", message |-> "", overview |-> ""]

Bodies == {Expected, WithMessage, JsonArray, Xml}

\* the bodies data.json() parses, and those it parses to a dict
JsonBodies == {"json_expected", "json_message", "json_array"}
JsonDicts == {"json_expected", "json_message"}

Sentinel == "No overview available."
MsgJson == "Expecting value: line 1 column 1 (char 0)"
MsgListGet == "'list' object has no attribute 'get'"

Raise(type, text) == [kind |-> "raise", type |-> type, text |-> text]
Return(type, text) == [kind |-> "return", type |-> type, text |-> text]

\* the classes of errors.py have no __init__ and do not derive from
\* Exception: calling one with the message raises TypeError
TakesNoArguments(cls) ==
    CASE cls = "SubscriptionLevelError" -> "SubscriptionLevelError() takes no arguments"
      [] cls = "InvalidAPIKeyError" -> "InvalidAPIKeyError() takes no arguments"
      [] cls = "NotFoundError" -> "NotFoundError() takes no arguments"
      [] cls = "TooManyRequestsError" -> "TooManyRequestsError() takes no arguments"
      [] OTHER -> "OpenWeatherMapException() takes no arguments"

\* raise cls(error_message)
RaiseError(cls, error_message) == Raise("TypeError", TakesNoArguments(cls))

\* try: data.json().get('message', data.text) / except Exception: data.text
ErrorMessage(body) ==
    IF body.kind \in JsonDicts
    THEN IF body.kind = "json_message" THEN body.message ELSE body.text
    ELSE body.text

\* Classify with the subscription branch at the plain status 400
ClassifyPlain400(status, body) ==
    LET error_message == ErrorMessage(body)
    IN  CASE status = 400 ->
                 RaiseError("SubscriptionLevelError", error_message)
          [] status = StatusUnauthorized ->
                 RaiseError("InvalidAPIKeyError", error_message)
          [] status = StatusNotFound ->
                 RaiseError("NotFoundError", error_message)
          [] status = StatusTooMany ->
                 RaiseError("TooManyRequestsError", error_message)
          [] OTHER -> RaiseError("OpenWeatherMapException", error_message)

\* the else branch of every operation: the message, then match status_code
Classify(status, body) ==
    LET error_message == ErrorMessage(body)
    IN  CASE status = StatusSubscription ->
                 RaiseError("SubscriptionLevelError", error_message)
          [] status = StatusUnauthorized ->
                 RaiseError("InvalidAPIKeyError", error_message)
          [] status = StatusNotFound ->
                 RaiseError("NotFoundError", error_message)
          [] status = StatusTooMany ->
                 RaiseError("TooManyRequestsError", error_message)
          [] OTHER -> RaiseError("OpenWeatherMapException", error_message)

\* a body of the shape the endpoint declares, in the requested format
ShapeOk(body, mode) ==
    IF mode = <<"xml">> THEN body.kind = "xml_expected"
    ELSE body.kind = "json_expected"

\* the response classes of core.py: they wrap a payload of the declared
\* shape; on any other payload they may wrap it or raise (ctorOk)
Response(cls, body, mode, ctorOk) ==
    IF ShapeOk(body, mode) \/ ctorOk
    THEN Return(cls, body.text)
    ELSE Raise("Exception", body.text)

\* cls(data.json())
JsonResponse(cls, resp) ==
    IF resp.body.kind \notin JsonBodies
    THEN Raise("JSONDecodeError", MsgJson)
    ELSE Response(cls, resp.body, <<"json">>, resp.ctorOk)

\* one requests.get / requests.post and what the operation makes of it
Call(method, url, result) ==
    [http |-> 1, method |-> method, url |-> url, result |-> result]
\* an operation that raised before it requested anything
Rejected(type, text) ==
    [http |-> 0, method |-> "", url |-> <<>>, result |-> Raise(type, text)]

\* Get asking once more when the server answers 429
GetRetrying(url, resp, success) ==
    [http |-> IF resp.status = StatusTooMany THEN 2 ELSE 1,
     method |-> "GET", url |-> url,
     result |-> IF resp.status = StatusOk THEN success
                ELSE Classify(resp.status, resp.body)]

\* if data.status_code == 200: ... else: ...
Get(url, resp, success) ==
    Call("GET", url,
         IF resp.status = StatusOk THEN success
         ELSE Classify(resp.status, resp.body))

(***************************************************************************)
(* The operations.  resp is the server's response: status, body, ctorOk.   *)
(***************************************************************************)
\* OneCallAPI.get_weather
OneCallGetWeather(self, exclude, resp) ==
    LET exclude_str == IF Len(exclude) > 0 THEN Join(exclude) ELSE <<>>
        url == IF Len(exclude_str) > 0
               THEN self.url \o Param("exclude=", exclude_str)
               ELSE self.url
    IN  Get(url, resp, JsonResponse("OneCallResponse", resp))

\* get_timed_weather refusing the first second of 1979 too
GetTimedWeatherInclusive(self, timestamp, resp) ==
    IF timestamp <= MinTimestamp
    THEN Rejected("ValueError", MsgTimestamp)
    ELSE Get(Replace(self.url, <<"onecall?">>, <<"onecall/timemachine?">>)
                 \o Param("dt=", StrInt(timestamp)),
             resp, JsonResponse("OneCallResponse", resp))

\* OneCallAPI.get_timed_weather
GetTimedWeather(self, timestamp, resp) ==
    IF timestamp < MinTimestamp
    THEN Rejected("ValueError", MsgTimestamp)
    ELSE Get(Replace(self.url, <<"onecall?">>, <<"onecall/timemachine?">>)
                 \o Param("dt=", StrInt(timestamp)),
             resp, JsonResponse("OneCallResponse", resp))

\* OneCallAPI.get_aggregation
GetAggregation(self, date, resp) ==
    Get(Replace(self.url, <<"onecall?">>, <<"onecall/day_summary?">>)
            \o Param("date=", date),
        resp, JsonResponse("OneCallResponse", resp))

\* OneCallAPI.get_overview
GetOverview(self, resp) ==
    Get(Replace(Replace(self.url, <<"onecall?">>, <<"onecall/overview?">>),
                <<"&", "lang=">> \o self.language, <<>>),
        resp,
        IF resp.body.kind \notin JsonBodies
        THEN Raise("JSONDecodeError", MsgJson)
        ELSE IF resp.body.kind \notin JsonDicts
             THEN Raise("AttributeError", MsgListGet)
             ELSE IF resp.body.kind = "json_expected"
                  THEN Return("str", resp.body.overview)
                  ELSE Return("str", Sentinel))

\* CurrentWeatherAPI.get_weather
CurrentGetWeather(self, resp) ==
    Get(self.url, resp,
        IF self.mode = <<"html">>
        THEN Return("str", resp.body.text)
        ELSE IF self.mode = <<"xml">>
             THEN Response("CurrentWeatherResponse", resp.body, self.mode,
                           resp.ctorOk)
             ELSE JsonResponse("CurrentWeatherResponse", resp))

\* FiveDayForecast.get_forecast
GetForecast(self, resp) ==
    Get(self.url, resp,
        IF self.mode = <<"xml">>
        THEN Response("FiveDayForecastResponse", resp.body, self.mode,
                      resp.ctorOk)
        ELSE JsonResponse("FiveDayForecastResponse", resp))

\* AirPollutionAPI.get_current_air_pollution
GetCurrentAirPollution(self, resp) ==
    Get(self.url, resp, JsonResponse("AirPollutionResponse", resp))

\* AirPollutionAPI.get_air_pollution_forecast
GetAirPollutionForecast(self, resp) ==
    Get(Replace(self.url, <<"air_pollution?">>, <<"air_pollution/forecast?">>),
        resp, JsonResponse("AirPollutionResponse", resp))

\* AirPollutionAPI.get_air_pollution_history
GetAirPollutionHistory(self, start, end, resp) ==
    Get(Replace(self.url, <<"air_pollution?">>, <<"air_pollution/history?">>)
            \o Param("start=", StrInt(start)) \o Param("end=", StrInt(end)),
        resp, JsonResponse("AirPollutionResponse", resp))

\* BadLimit refusing the largest limit too
BadLimitOffByOne(limit) == limit >= LimitMax \/ limit < LimitMin

\* if limit > 5 or limit < 1
BadLimit(limit) == limit > LimitMax \/ limit < LimitMin

\* get_by_city appending the state code whether it is empty or not
GetByCityAlwaysState(self, city, country, state_code, limit, resp) ==
    LET url1 == self.url \o Param("q=", city \o <<",">> \o country)
        url2 == url1 \o <<",">> \o state_code
    IN  IF BadLimit(limit)
        THEN Rejected("ValueError", MsgLimit)
        ELSE Get(url2 \o Param("limit=", StrInt(limit)), resp,
                 JsonResponse("GeocodingResponse", resp))

\* GeocodingAPI.get_by_city; a state_code of None is the empty string here,
\* the code tests only its truth
GetByCity(self, city, country, state_code, limit, resp) ==
    LET url1 == self.url \o Param("q=", city \o <<",">> \o country)
        url2 == IF Len(state_code) > 0 THEN url1 \o <<",">> \o state_code
                ELSE url1
    IN  IF BadLimit(limit)
        THEN Rejected("ValueError", MsgLimit)
        ELSE Get(url2 \o Param("limit=", StrInt(limit)), resp,
                 JsonResponse("GeocodingResponse", resp))

\* GeocodingAPI.get_by_zip
GetByZip(self, zip_code, country, resp) ==
    Get(Replace(self.url, <<"direct?">>, <<"zip?">>)
            \o Param("zip=", zip_code \o <<",">> \o country),
        resp, JsonResponse("GeocodingResponse", resp))

\* GeocodingAPI.get_by_coordinates; the chained comparison raises TypeError
\* at the first operand it reaches that is not a number
GetByCoordinates(self, latitude, longitude, limit, resp) ==
    LET latIn == latitude.t # "nan" /\ 2 * LatMin <= latitude.h
                                    /\ latitude.h <= 2 * LatMax
        lonIn == longitude.t # "nan" /\ 2 * LonMin <= longitude.h
                                     /\ longitude.h <= 2 * LonMax
        url == self.url \o Param("lat=", Str(latitude))
                        \o Param("lon=", Str(longitude))
                        \o Param("limit=", StrInt(limit))
    IN  IF BadLimit(limit) THEN Rejected("ValueError", MsgLimit)
        ELSE IF ~ IsNumber(latitude) THEN Rejected("TypeError", MsgCompare)
        ELSE IF ~ latIn THEN Rejected("ValueError", MsgLatLon)
        ELSE IF ~ IsNumber(longitude) THEN Rejected("TypeError", MsgCompare)
        ELSE IF ~ lonIn THEN Rejected("ValueError", MsgLatLon)
        ELSE Get(Replace(url, <<"direct?">>, <<"reverse?">>), resp,
                 JsonResponse("GeocodingResponse", resp))

\* register_station taking 200 for a success as well
RegisterStationOn200(self, resp) ==
    Call("POST", self.url,
         IF resp.status \in {StatusOk, StatusCreated}
         THEN JsonResponse("WeatherStation", resp)
         ELSE Classify(resp.status, resp.body))

\* WeatherStationAPI.register_station
RegisterStation(self, resp) ==
    Call("POST", self.url,
         IF resp.status = StatusCreated
         THEN JsonResponse("WeatherStation", resp)
         ELSE Classify(resp.status, resp.body))

(***************************************************************************)
(* The state: one client and the caller's view of the last invocation.     *)
(***************************************************************************)
VARIABLES
    client,     \* the client object, NoClient if construction failed
    outcome,    \* the last invocation: its arguments, requests and result
    given,      \* the arguments the client's constructor was called with
    httpCount,  \* HTTP requests issued through this client
    geoCount    \* geocoder lookups made for this client

vars == <<client, outcome, given, httpCount, geoCount>>

Resp(status, body, ctorOk) == [status |-> status, body |-> body, ctorOk |-> ctorOk]

\* the responses tried: every status with a JSON error body; the success
\* status and a failure status with every other kind of body; and a success
\* whose body the response class does not take (ctorOk matters nowhere else)
Responses ==
    {Resp(st, WithMessage, TRUE) : st \in Statuses}
        \cup {Resp(st, b, TRUE) : st \in {StatusOk, StatusNotFound},
                                  b \in {Expected, JsonArray, Xml}}
        \cup {Resp(StatusCreated, Expected, TRUE),
              Resp(StatusOk, WithMessage, FALSE)}

\* the responses tried with each choice of an operation's arguments
SomeResponses ==
    {[status |-> StatusOk, body |-> Expected, ctorOk |-> TRUE],
     [status |-> StatusUnauthorized, body |-> WithMessage, ctorOk |-> TRUE]}

\* the invocations tried: every argument with some responses, and one
\* argument with every response
Inputs(args, arg0) == (args \X SomeResponses) \cup ({arg0} \X Responses)

Timestamps == {MinTimestamp - 1, MinTimestamp, MinTimestamp + 86400}
Excludes == {<<>>, <<"minutely", "hourly">>}
StateCodes == {<<>>, <<"CA">>}
Limits == (LimitMin - LimitSlack)..(LimitMax + LimitSlack)
\* (city, country, state_code, limit)
CityArgs == {<<"London">>} \X {<<"GB">>} \X StateCodes \X Limits
\* (latitude, longitude, limit)
CoordArgs ==
    {<<p[1], p[2], LimitMin>> : p \in ValidPairs \cup BadPairs}
        \cup {<<Float_(103), Float_(-1), l>> : l \in Limits}
        \cup {<<Float_(2 * LatMax + 1), Int_(0), LimitMax + 1>>}

NoArgs ==
    [api_key |-> <<>>, location |-> NoLocation, language |-> <<>>, units |-> <<>>,
     mode |-> <<>>, count |-> 0, answer |-> NoMatch, exclude |-> <<>>,
     timestamp |-> 0, date |-> <<>>, start |-> 0, end |-> 0, city |-> <<>>,
     country |-> <<>>, state_code |-> <<>>, zip_code |-> <<>>, limit |-> 0,
     latitude |-> Float_(0), longitude |-> Float_(0)]

NoBody == [kind |-> "none", text |-> "", message |-> "", overview |-> ""]

NoOutcome ==
    [op |-> "none", args |-> NoArgs, kind |-> "none", type |-> "", text |-> "",
     status |-> 0, body |-> NoBody, http |-> 0, geo |-> 0, method |-> "",
     url |-> <<>>]

Init ==
    /\ client = NoClient
    /\ outcome = NoOutcome
    /\ given = NoArgs
    /\ httpCount = 0
    /\ geoCount = 0

\* a constructor ran: the caller holds the new client, or the exception.
\* A behaviour follows one client from its construction.
Constructed(cls, args, r) ==
    /\ outcome.op = "none"
    /\ client' = r.client
    /\ outcome' = [NoOutcome EXCEPT
           !.op = cls, !.args = args,
           !.kind = IF r.ok THEN "return" ELSE "raise",
           !.type = IF r.ok THEN cls ELSE r.type,
           !.text = r.text, !.geo = r.geo]
    /\ given' = args
    /\ httpCount' = 0
    /\ geoCount' = r.geo

\* Invoked with the operation storing the URL it requested in the client
InvokedStoringUrl(op, args, resp, call) ==
    /\ outcome' = [NoOutcome EXCEPT
           !.op = op, !.args = args,
           !.kind = call.result.kind, !.type = call.result.type,
           !.text = call.result.text,
           !.status = IF call.http > 0 THEN resp.status ELSE 0,
           !.body = IF call.http > 0 THEN resp.body ELSE NoBody,
           !.http = call.http, !.method = call.method, !.url = call.url]
    /\ httpCount' = httpCount + call.http
    /\ client' = IF call.http > 0 THEN [client EXCEPT !.url = call.url] ELSE client
    /\ UNCHANGED <<given, geoCount>>

\* an operation ran on the client: the caller holds its result
Invoked(op, args, resp, call) ==
    /\ outcome' = [NoOutcome EXCEPT
           !.op = op, !.args = args,
           !.kind = call.result.kind, !.type = call.result.type,
           !.text = call.result.text,
           !.status = IF call.http > 0 THEN resp.status ELSE 0,
           !.body = IF call.http > 0 THEN resp.body ELSE NoBody,
           !.http = call.http, !.method = call.method, !.url = call.url]
    /\ httpCount' = httpCount + call.http
    /\ UNCHANGED <<client, given, geoCount>>

NewOneCallAPI ==
    \E api_key \in Keys, location \in Locations, language \in Languages,
       units \in UnitsSet, g \in GeoAnswers :
        Constructed("OneCallAPI",
            [NoArgs EXCEPT !.api_key = api_key, !.location = location,
                           !.language = language, !.units = units,
                           !.answer = g],
            OneCallInit(api_key, location, language, units, g))

NewCurrentWeatherAPI ==
    \E api_key \in Keys, location \in Locations, language \in Languages,
       units \in UnitsSet, mode \in Modes, g \in GeoAnswers :
        Constructed("CurrentWeatherAPI",
            [NoArgs EXCEPT !.api_key = api_key, !.location = location,
                           !.language = language, !.units = units,
                           !.mode = mode, !.answer = g],
            CurrentWeatherInit(api_key, location, language, units, mode, g))

NewFiveDayForecast ==
    \E api_key \in Keys, location \in Locations, count \in Counts,
       language \in Languages, units \in UnitsSet, mode \in Modes,
       g \in GeoAnswers :
        Constructed("FiveDayForecast",
            [NoArgs EXCEPT !.api_key = api_key, !.location = location,
                           !.count = count, !.language = language,
                           !.units = units, !.mode = mode, !.answer = g],
            FiveDayInit(api_key, location, count, language, units, mode, g))

NewAirPollutionAPI ==
    \E api_key \in Keys, location \in Locations, g \in GeoAnswers :
        Constructed("AirPollutionAPI",
            [NoArgs EXCEPT !.api_key = api_key, !.location = location,
                           !.answer = g],
            AirPollutionInit(api_key, location, g))

NewGeocodingAPI ==
    \E api_key \in BareKeys :
        Constructed("GeocodingAPI", [NoArgs EXCEPT !.api_key = api_key],
                    GeocodingInit(api_key))

NewWeatherStationAPI ==
    \E api_key \in BareKeys :
        Constructed("WeatherStationAPI", [NoArgs EXCEPT !.api_key = api_key],
                    WeatherStationInit(api_key))

CanCall(cls) == client.cls = cls /\ httpCount < MaxCalls

DoOneCallGetWeather ==
    /\ CanCall("OneCallAPI")
    /\ \E in \in Inputs(Excludes, <<>>) :
        LET exclude == in[1]
            resp == in[2]
        IN  Invoked("OneCallAPI.get_weather", [NoArgs EXCEPT !.exclude = exclude],
                resp, OneCallGetWeather(client, exclude, resp))

DoGetTimedWeather ==
    /\ CanCall("OneCallAPI")
    /\ \E in \in Inputs(Timestamps, MinTimestamp) :
        LET timestamp == in[1]
            resp == in[2]
        IN  Invoked("get_timed_weather", [NoArgs EXCEPT !.timestamp = timestamp],
                resp, GetTimedWeather(client, timestamp, resp))

DoGetAggregation ==
    /\ CanCall("OneCallAPI")
    /\ \E date \in {<<"2024-01-01">>}, resp \in Responses :
        Invoked("get_aggregation", [NoArgs EXCEPT !.date = date],
                resp, GetAggregation(client, date, resp))

DoGetOverview ==
    /\ CanCall("OneCallAPI")
    /\ \E resp \in Responses :
        Invoked("get_overview", NoArgs, resp, GetOverview(client, resp))

DoCurrentGetWeather ==
    /\ CanCall("CurrentWeatherAPI")
    /\ \E resp \in Responses :
        Invoked("CurrentWeatherAPI.get_weather", NoArgs, resp,
                CurrentGetWeather(client, resp))

DoGetForecast ==
    /\ CanCall("FiveDayForecast")
    /\ \E resp \in Responses :
        Invoked("get_forecast", NoArgs, resp, GetForecast(client, resp))

DoGetCurrentAirPollution ==
    /\ CanCall("AirPollutionAPI")
    /\ \E resp \in Responses :
        Invoked("get_current_air_pollution", NoArgs, resp,
                GetCurrentAirPollution(client, resp))

DoGetAirPollutionForecast ==
    /\ CanCall("AirPollutionAPI")
    /\ \E resp \in Responses :
        Invoked("get_air_pollution_forecast", NoArgs, resp,
                GetAirPollutionForecast(client, resp))

DoGetAirPollutionHistory ==
    /\ CanCall("AirPollutionAPI")
    /\ \E start \in {1606223802}, end \in {1606482999}, resp \in Responses :
        Invoked("get_air_pollution_history",
                [NoArgs EXCEPT !.start = start, !.end = end],
                resp, GetAirPollutionHistory(client, start, end, resp))

DoGetByCity ==
    /\ CanCall("GeocodingAPI")
    /\ \E in \in Inputs(CityArgs, <<<<"London">>, <<"GB">>, <<>>, LimitMin>>) :
        LET city == in[1][1]
            country == in[1][2]
            state_code == in[1][3]
            limit == in[1][4]
            resp == in[2]
        IN  Invoked("get_by_city",
                [NoArgs EXCEPT !.city = city, !.country = country,
                               !.state_code = state_code, !.limit = limit],
                resp, GetByCity(client, city, country, state_code, limit, resp))

DoGetByZip ==
    /\ CanCall("GeocodingAPI")
    /\ \E zip_code \in {<<"E14">>}, country \in {<<"GB">>}, resp \in Responses :
        Invoked("get_by_zip",
                [NoArgs EXCEPT !.zip_code = zip_code, !.country = country],
                resp, GetByZip(client, zip_code, country, resp))

DoGetByCoordinates ==
    /\ CanCall("GeocodingAPI")
    /\ \E in \in Inputs(CoordArgs, <<Float_(103), Float_(-1), LimitMin>>) :
        LET latitude == in[1][1]
            longitude == in[1][2]
            limit == in[1][3]
            resp == in[2]
        IN  Invoked("get_by_coordinates",
                [NoArgs EXCEPT !.latitude = latitude, !.longitude = longitude,
                               !.limit = limit],
                resp, GetByCoordinates(client, latitude, longitude, limit, resp))

DoRegisterStation ==
    /\ CanCall("WeatherStationAPI")
    /\ \E resp \in Responses :
        Invoked("register_station", NoArgs, resp, RegisterStation(client, resp))

Next ==
    \/ NewOneCallAPI
    \/ NewCurrentWeatherAPI
    \/ NewFiveDayForecast
    \/ NewAirPollutionAPI
    \/ NewGeocodingAPI
    \/ NewWeatherStationAPI
    \/ DoOneCallGetWeather
    \/ DoGetTimedWeather
    \/ DoGetAggregation
    \/ DoGetOverview
    \/ DoCurrentGetWeather
    \/ DoGetForecast
    \/ DoGetCurrentAirPollution
    \/ DoGetAirPollutionForecast
    \/ DoGetAirPollutionHistory
    \/ DoGetByCity
    \/ DoGetByZip
    \/ DoGetByCoordinates
    \/ DoRegisterStation

Spec == Init /\ [][Next]_vars

TypeOK ==
    /\ client.cls \in {"none", "OneCallAPI", "CurrentWeatherAPI",
                       "FiveDayForecast", "AirPollutionAPI", "GeocodingAPI",
                       "WeatherStationAPI"}
    /\ outcome.kind \in {"none", "return", "raise"}
    /\ httpCount \in 0..MaxCalls
    /\ geoCount \in 0..1

(***************************************************************************)
(* Vocabulary of the properties.                                           *)
(***************************************************************************)
Constructors ==
    {"OneCallAPI", "CurrentWeatherAPI", "FiveDayForecast", "AirPollutionAPI",
     "GeocodingAPI", "WeatherStationAPI"}
\* the classes constructed with a location
Located == {"OneCallAPI", "CurrentWeatherAPI", "FiveDayForecast", "AirPollutionAPI"}
Operations ==
    {"OneCallAPI.get_weather", "get_timed_weather", "get_aggregation",
     "get_overview", "CurrentWeatherAPI.get_weather", "get_forecast",
     "get_current_air_pollution", "get_air_pollution_forecast",
     "get_air_pollution_history", "get_by_city", "get_by_zip",
     "get_by_coordinates", "register_station"}

\* the failure kind the table gives a status code, as the class of errors.py
TableKind(status) ==
    CASE status = 400000 -> "SubscriptionLevelError"
      [] status = 401 -> "InvalidAPIKeyError"
      [] status = 404 -> "NotFoundError"
      [] status = 429 -> "TooManyRequestsError"
      [] OTHER -> "OpenWeatherMapException"

\* the server answered o's request with a status that is no success
RemoteFailure(o) == o.http > 0 /\ o.status \notin {200, 201}

\* o raised one of the local validation errors
ValidationMessages ==
    {MsgModeCurrent, MsgModeForecast, MsgLimit, MsgTimestamp, MsgLatLon,
     MsgLocationTuple, MsgApiKey}
ValidationFailure(o) ==
    o.kind = "raise" /\ o.type = "ValueError" /\ o.text \in ValidationMessages

\* the failure kind of a failed invocation
Cause(o) ==
    IF RemoteFailure(o) THEN TableKind(o.status)
    ELSE IF o.text = MsgLocationNotFound THEN "LocationNotFound"
    ELSE IF o.text \in {MsgLatLon, MsgLocationTuple} /\ o.op \in Constructors
         THEN "InvalidLocation"
    ELSE "InvalidParameter"

\* a coordinate pair in range, judged on its values
GoodPair(elems) ==
    /\ Len(elems) = 2
    /\ \A i \in 1..2 : elems[i].t \in {"int", "float"}
    /\ elems[1].h \in (2 * LatMin)..(2 * LatMax)
    /\ elems[2].h \in (2 * LonMin)..(2 * LonMax)

(***************************************************************************)
(* C1  A response that is no success reaches the caller as the failure     *)
(* kind the table gives its status code: 401 InvalidApiKey, 404 NotFound,  *)
(* 429 TooManyRequests, 400000 SubscriptionLevel, any other code           *)
(* GenericApiError.  The code does not do this: the classes of errors.py   *)
(* are no exceptions and take no arguments, so every raise statement of    *)
(* the table ends in a TypeError.                                          *)
(***************************************************************************)
C1_FailureKindByTable ==
    RemoteFailure(outcome) =>
        outcome.kind = "raise" /\ outcome.type = TableKind(outcome.status)

(***************************************************************************)
(* C2  Every failure reaches the caller as a typed error whose kind tells  *)
(* it from every other kind of failure, and no failure is handed back as   *)
(* a normal return value: two failures of different kinds never have the   *)
(* same type, and a 200 response without the expected field is no          *)
(* sentinel return.  The code does neither.                                *)
(***************************************************************************)
C2_FailuresDistinguishable ==
    /\ [](~ (outcome.kind = "return" /\ outcome.text = Sentinel))
    /\ [][(/\ outcome.kind = "raise"
           /\ outcome'.kind = "raise"
           /\ Cause(outcome) # Cause(outcome'))
          => outcome.type # outcome'.type]_vars

(***************************************************************************)
(* C3  The text of the error raised on a response that is no success is    *)
(* the body's message field when the body is a JSON object that has one,   *)
(* and the raw text of the response otherwise.  The code computes that     *)
(* text and loses it in the TypeError of C1.                               *)
(***************************************************************************)
C3_ErrorTextIsMessage ==
    RemoteFailure(outcome) =>
        /\ outcome.kind = "raise"
        /\ outcome.text = IF outcome.body.kind = "json_message"
                          THEN outcome.body.message
                          ELSE outcome.body.text

(***************************************************************************)
(* C4  A construction or operation that fails a local validation has made  *)
(* no network call, neither a geocoder lookup nor an HTTP request, when it *)
(* fails.  The code validates the mode of CurrentWeatherAPI and            *)
(* FiveDayForecast after the base constructor has looked the place up.     *)
(***************************************************************************)
C4_ValidationBeforeNetwork ==
    ValidationFailure(outcome) => outcome.geo = 0 /\ outcome.http = 0

(***************************************************************************)
(* C5  Every invocation of an operation that passes local validation       *)
(* issues exactly one HTTP request, whatever the status and the outcome,   *)
(* and one that does not pass issues none: a client that was called N      *)
(* times with valid arguments has issued N requests.                       *)
(***************************************************************************)
\* the arguments of o pass the operation's local validation
PassesValidation(o) ==
    /\ o.op = "get_timed_weather" => o.args.timestamp >= 283996800
    /\ o.op = "get_by_city" => o.args.limit \in 1..5
    /\ o.op = "get_by_coordinates" =>
           /\ o.args.limit \in 1..5
           /\ GoodPair(<<o.args.latitude, o.args.longitude>>)

C5_OneRequestPerInvocation ==
    /\ [](outcome.op \in Constructors => httpCount = 0 /\ outcome.http = 0)
    /\ [][outcome'.op \in Operations =>
            IF PassesValidation(outcome')
            THEN outcome'.http = 1 /\ httpCount' = httpCount + 1
            ELSE outcome'.http = 0 /\ httpCount' = httpCount]_vars

\* a second call on one client, answered 429, has raised after one request
C5_Witness ==
    /\ httpCount = 2
    /\ outcome.op \in Operations
    /\ outcome.status = 429
    /\ outcome.kind = "raise"
    /\ outcome.http = 1

(***************************************************************************)
(* Reading a request URL back: the value of a parameter, and the number    *)
(* its digits write.                                                       *)
(***************************************************************************)
IndexOf(s, tok) ==
    IF \E i \in 1..Len(s) : s[i] = tok
    THEN CHOOSE i \in 1..Len(s) : s[i] = tok /\ \A j \in 1..(i - 1) : s[j] # tok
    ELSE 0

RECURSIVE TakeValue(_)
TakeValue(s) ==
    IF Len(s) = 0 \/ Head(s) = "&" THEN <<>>
    ELSE <<Head(s)>> \o TakeValue(Tail(s))

\* the tokens between the first name and the next "&"
ParamValue(url, name) ==
    LET i == IndexOf(url, name)
    IN  IF i = 0 THEN <<>> ELSE TakeValue(SubSeq(url, i + 1, Len(url)))

DigitValue(c) == CHOOSE d \in 0..9 : DigitChars[d + 1] = c

RECURSIVE NatOf(_)
NatOf(ds) ==
    IF Len(ds) = 0 THEN 0
    ELSE 10 * NatOf(SubSeq(ds, 1, Len(ds) - 1)) + DigitValue(ds[Len(ds)])

\* twice the number a decimal numeral with at most one decimal writes
HalvesOf(tokens) ==
    LET neg == Len(tokens) > 0 /\ tokens[1] = "-"
        body == IF neg THEN Tail(tokens) ELSE tokens
        dot == IndexOf(body, ".")
        whole == IF dot = 0 THEN body ELSE SubSeq(body, 1, dot - 1)
        frac == IF dot # 0 /\ body[dot + 1] = "5" THEN 1 ELSE 0
        v == 2 * NatOf(whole) + frac
    IN  IF neg THEN -v ELSE v

\* the constructor call o was given a response format its class accepts
ModeAccepted(o) ==
    /\ o.op = "CurrentWeatherAPI" =>
           o.args.mode \in {<<"json">>, <<"xml">>, <<"html">>}
    /\ o.op = "FiveDayForecast" => o.args.mode \in {<<"json">>, <<"xml">>}

\* the body is well-formed and of the shape the endpoint declares
WellFormed(o) ==
    IF client.mode = <<"xml">> THEN o.body.kind = "xml_expected"
    ELSE o.body.kind = "json_expected"

(***************************************************************************)
(* C6  As claimed, for the responses with a well-formed body of the        *)
(* declared shape: an operation succeeds exactly when the status is 200    *)
(* or, for register_station only, 201, so register_station succeeds on     *)
(* both.  The code does not: register_station takes 200 for a failure.     *)
(***************************************************************************)
C6_SuccessOn200Or201 ==
    outcome.http > 0 /\ WellFormed(outcome) =>
        (outcome.kind = "return" <=>
            \/ outcome.status = 200
            \/ outcome.op = "register_station" /\ outcome.status = 201)

(***************************************************************************)
(* C6, amended  The success status is 200 for every GET operation and 201  *)
(* for register_station: a response with any other status is a failure     *)
(* (201 for a GET, 200 for register_station), and a response with the      *)
(* success status and a well-formed body of the declared shape is a        *)
(* success.                                                                *)
(***************************************************************************)
C6_SuccessStatus ==
    outcome.http > 0 =>
        LET success == IF outcome.op = "register_station"
                       THEN outcome.status = 201
                       ELSE outcome.status = 200
        IN  /\ ~ success => outcome.kind = "raise"
            /\ success /\ WellFormed(outcome) => outcome.kind = "return"

\* register_station answered 201 has returned the station
C6_Witness ==
    /\ outcome.op = "register_station"
    /\ outcome.status = 201
    /\ outcome.kind = "return"
    /\ outcome.type = "WeatherStation"

(***************************************************************************)
(* C7  A coordinate pair that is out of range, not numeric or not of       *)
(* length two makes construction fail with InvalidLocation and             *)
(* get_by_coordinates fail with InvalidParameter (both ValueError), with   *)
(* no geocoder lookup and no HTTP request, however the pair is supplied.   *)
(* The code looks a pair up as a place name when it is not a tuple, and    *)
(* get_by_coordinates raises TypeError on a coordinate that is no number.  *)
(***************************************************************************)
C7_BadCoordinatesRejected ==
    /\ (/\ outcome.op \in Located
        /\ outcome.args.location.form \in {"tuple", "list"}
        /\ ~ GoodPair(outcome.args.location.elems))
       => /\ outcome.kind = "raise"
          /\ outcome.type = "ValueError"
          /\ outcome.text \in {MsgLatLon, MsgLocationTuple}
          /\ outcome.geo = 0
          /\ outcome.http = 0
    /\ (/\ outcome.op = "get_by_coordinates"
        /\ ~ GoodPair(<<outcome.args.latitude, outcome.args.longitude>>))
       => /\ outcome.kind = "raise"
          /\ outcome.type = "ValueError"
          /\ outcome.text \in {MsgLatLon, MsgLimit}
          /\ outcome.geo = 0
          /\ outcome.http = 0

(***************************************************************************)
(* C8  A coordinate pair with latitude in [-90,90] and longitude in        *)
(* [-180,180], the limits included, is accepted: construction succeeds     *)
(* without a geocoder lookup, the client's location is the pair as given,  *)
(* and the lat and lon of every URL the client requests write the given    *)
(* values.                                                                 *)
(***************************************************************************)
C8_ValidCoordinatesKept ==
    /\ (/\ outcome.op \in Located
        /\ outcome.args.location.form = "tuple"
        /\ GoodPair(outcome.args.location.elems)
        /\ ModeAccepted(outcome))
       => /\ outcome.kind = "return"
          /\ client.cls = outcome.op
          /\ client.location = outcome.args.location.elems
          /\ outcome.geo = 0
          /\ geoCount = 0
    /\ (/\ client.cls \in Located
        /\ given.location.form = "tuple"
        /\ outcome.http > 0)
       => /\ client.location = given.location.elems
          /\ geoCount = 0
          /\ HalvesOf(ParamValue(outcome.url, "lat=")) = given.location.elems[1].h
          /\ HalvesOf(ParamValue(outcome.url, "lon=")) = given.location.elems[2].h

\* a client built at (90, 180) has requested the overview
C8_Witness ==
    /\ client.cls = "OneCallAPI"
    /\ given.location = Tuple_(<<Int_(90), Int_(180)>>)
    /\ outcome.op = "get_overview"
    /\ outcome.http = 1
    /\ ParamValue(outcome.url, "lat=") = <<"9", "0">>

(***************************************************************************)
(* C9  A client constructed with a place name makes exactly one geocoder   *)
(* lookup, during construction: without a match construction fails with    *)
(* LocationNotFound and there is no client; with a match the location is   *)
(* the match's coordinates, and no operation looks anything up again.      *)
(***************************************************************************)
C9_OneLookupAtConstruction ==
    /\ (outcome.op \in Located /\ outcome.args.location.form = "text")
       => /\ outcome.geo = 1
          /\ geoCount = 1
          /\ outcome.http = 0
          /\ ~ outcome.args.answer.found
                 => /\ outcome.kind = "raise"
                    /\ outcome.type = "ValueError"
                    /\ outcome.text = MsgLocationNotFound
                    /\ client = NoClient
          /\ outcome.args.answer.found /\ ModeAccepted(outcome)
                 => outcome.kind = "return"
          /\ outcome.kind = "return"
                 => client.location = <<outcome.args.answer.lat,
                                        outcome.args.answer.lon>>
    /\ (outcome.op \in Operations /\ given.location.form = "text")
       => /\ outcome.geo = 0
          /\ geoCount = 1
          /\ client.location = <<given.answer.lat, given.answer.lon>>

\* a client built from a place name has been called twice
C9_Witness ==
    /\ given.location.form = "text"
    /\ given.answer.found
    /\ client.cls \in Located
    /\ outcome.op \in Operations
    /\ httpCount = 2
    /\ geoCount = 1

(***************************************************************************)
(* C10  get_by_city and get_by_coordinates raise InvalidParameter          *)
(* (ValueError) without a request for every limit outside [1,5], and for   *)
(* every limit in [1,5] issue a request whose URL carries limit=<value>.   *)
(***************************************************************************)
C10_LimitBounds ==
    outcome.op \in {"get_by_city", "get_by_coordinates"} =>
        /\ outcome.args.limit \notin 1..5
               => /\ outcome.kind = "raise"
                  /\ outcome.type = "ValueError"
                  /\ outcome.text = MsgLimit
                  /\ outcome.http = 0
        /\ (/\ outcome.args.limit \in 1..5
            /\ outcome.op = "get_by_coordinates"
                   => GoodPair(<<outcome.args.latitude, outcome.args.longitude>>))
               => /\ outcome.http = 1
                  /\ IndexOf(outcome.url, "limit=") > 0
                  /\ NatOf(ParamValue(outcome.url, "limit=")) = outcome.args.limit

\* get_by_coordinates with limit 5 has issued its request
C10_Witness ==
    /\ outcome.op = "get_by_coordinates"
    /\ outcome.args.limit = 5
    /\ outcome.http = 1
    /\ ParamValue(outcome.url, "limit=") = <<"5">>

\* how often a token occurs in a URL
CountOf(s, tok) == Cardinality({i \in 1..Len(s) : s[i] = tok})

\* the tokens after the first occurrence of a name, to the end of the URL
After(url, name) ==
    LET i == IndexOf(url, name)
    IN  IF i = 0 THEN <<>> ELSE SubSeq(url, i + 1, Len(url))

\* the constructor call o was given a location its class builds a client at
LocationAccepted(o) ==
    IF o.args.location.form = "tuple"
    THEN GoodPair(o.args.location.elems)
    ELSE o.args.answer.found

(***************************************************************************)
(* C11  get_timed_weather raises InvalidParameter (ValueError) without a   *)
(* request for every timestamp below 283996800, 283996799 among them, and  *)
(* for every timestamp from 283996800 on issues one request, to the        *)
(* timemachine path, whose URL carries dt=<timestamp> once.                *)
(***************************************************************************)
C11_TimestampBound ==
    outcome.op = "get_timed_weather" =>
        IF outcome.args.timestamp < 283996800
        THEN /\ outcome.kind = "raise"
             /\ outcome.type = "ValueError"
             /\ outcome.text = MsgTimestamp
             /\ outcome.http = 0
        ELSE /\ outcome.http = 1
             /\ outcome.url[2] = "onecall/timemachine?"
             /\ CountOf(outcome.url, "dt=") = 1
             /\ NatOf(ParamValue(outcome.url, "dt=")) = outcome.args.timestamp

\* get_timed_weather at the first second of 1979 has issued its request
C11_Witness ==
    /\ outcome.op = "get_timed_weather"
    /\ outcome.args.timestamp = 283996800
    /\ outcome.http = 1
    /\ ParamValue(outcome.url, "dt=") =
           <<"2", "8", "3", "9", "9", "6", "8", "0", "0">>

C13_OptionalFields ==
    /\ (outcome.op = "OneCallAPI.get_weather" /\ outcome.http > 0) =>
           LET exclude == outcome.args.exclude
           IN  IF Len(exclude) > 0
               THEN /\ CountOf(outcome.url, "exclude=") = 1
                    /\ ParamValue(outcome.url, "exclude=") = Join(exclude)
               ELSE CountOf(outcome.url, "exclude=") = 0
    /\ (outcome.op = "get_by_city" /\ outcome.http > 0) =>
           LET a == outcome.args
               q == a.city \o <<",">> \o a.country
           IN  /\ CountOf(outcome.url, "q=") = 1
               /\ ParamValue(outcome.url, "q=") =
                      IF Len(a.state_code) > 0
                      THEN q \o <<",">> \o a.state_code
                      ELSE q
    /\ client.cls = "FiveDayForecast" =>
           LET url == IF outcome.http > 0 THEN outcome.url ELSE client.url
           IN  /\ client.count = given.count
               /\ IF given.count > 0
                  THEN /\ CountOf(url, "cnt=") = 1
                       /\ NatOf(ParamValue(url, "cnt=")) = given.count
                  ELSE CountOf(url, "cnt=") = 0

\* get_by_city without a state code has requested q=London,GB
C13_Witness ==
    /\ outcome.op = "get_by_city"
    /\ outcome.args.state_code = <<>>
    /\ outcome.http = 1
    /\ ParamValue(outcome.url, "q=") = <<"London", ",", "GB">>

(***************************************************************************)
(* Reading a request URL as a query string.                                *)
(***************************************************************************)
\* the tokens that end a URL's path and open its query
QueryStarts ==
    {"onecall?", "onecall/timemachine?", "onecall/day_summary?",
     "onecall/overview?", "weather?", "forecast?", "air_pollution?",
     "air_pollution/forecast?", "air_pollution/history?", "direct?", "zip?",
     "reverse?", "stations?"}

\* the tokens that name a parameter
ParamNames ==
    {"lat=", "lon=", "appid=", "lang=", "units=", "mode=", "cnt=", "exclude=",
     "dt=", "date=", "start=", "end=", "q=", "zip=", "limit="}

\* the URL has a parameter without a value, or nothing between "?" and "&"
\* or between two "&"
EmptyFragment(url) ==
    \E i \in 1..Len(url) :
        LET last == i = Len(url)
            next == IF last THEN "" ELSE url[i + 1]
        IN  \/ url[i] \in QueryStarts /\ next = "&"
            \/ url[i] = "&" /\ (last \/ next = "&")
            \/ url[i] \in ParamNames /\ (last \/ next = "&")

\* the URL has one appid parameter and the key, whole and unchanged, is what
\* follows its name
CarriesKey(url, key) ==
    /\ CountOf(url, "appid=") = 1
    /\ LET rest == After(url, "appid=")
       IN  /\ StartsWith(rest, key)
           /\ Len(rest) = Len(key) \/ rest[Len(key) + 1] = "&"

(***************************************************************************)
(* C14  No URL an operation requests has an empty query fragment: no       *)
(* parameter with an empty value and nothing empty between "?" and the     *)
(* first parameter or between two "&".  Stated for clients built with a    *)
(* plain key.  The code does not do this: every URL of GeocodingAPI starts *)
(* its query with "?&appid=", and a client built with the empty language   *)
(* requests "&lang=&units=...".                                            *)
(***************************************************************************)
C14_NoEmptyFragment ==
    (outcome.http > 0 /\ given.api_key = <<"k">>) => ~ EmptyFragment(outcome.url)

(***************************************************************************)
(* C15  Every URL an operation requests has exactly one appid parameter    *)
(* and its value is the key the client was constructed with, character for *)
(* character, whatever the key.  The code does not do this: the operations *)
(* that rewrite the path with str.replace rewrite the whole URL, the key   *)
(* in it included.                                                         *)
(***************************************************************************)
C15_AppidIsKey ==
    outcome.http > 0 => CarriesKey(outcome.url, given.api_key)

(***************************************************************************)
(* C16  No operation changes the client: across every invocation, failed   *)
(* or not, the client's api key, location, language, units, mode, count    *)
(* and URL stay what construction made them, and an operation requests the *)
(* same URL for the same arguments whatever was invoked before it.         *)
(***************************************************************************)
C16_OperationsKeepClient ==
    /\ [](client.cls # "none" =>
              /\ client.api_key = given.api_key
              /\ client.cls \in {"CurrentWeatherAPI", "FiveDayForecast"}
                     => client.mode = given.mode
              /\ client.cls = "FiveDayForecast" => client.count = given.count
              /\ client.cls \in {"OneCallAPI", "CurrentWeatherAPI", "FiveDayForecast"}
                     => client.language = given.language /\ client.units = given.units)
    /\ [][outcome'.op \in Operations => client' = client /\ given' = given]_vars
    /\ [][(/\ outcome'.op = outcome.op
           /\ outcome'.args = outcome.args
           /\ outcome.http = 1
           /\ outcome'.http = 1)
          => outcome'.url = outcome.url]_vars

\* after two requests the air pollution client still holds its base URL
C16_Witness ==
    /\ client.cls = "AirPollutionAPI"
    /\ httpCount = 2
    /\ outcome.op = "get_air_pollution_forecast"
    /\ outcome.url[2] = "air_pollution/forecast?"
    /\ client.url[2] = "air_pollution?"

(***************************************************************************)
(* C17  Whatever language, key and units the client was constructed with,  *)
(* get_overview requests the overview path with no lang parameter and with *)
(* the lat, lon, appid and units of the client's base URL, and get_weather,*)
(* get_timed_weather and get_aggregation request a URL with the lang       *)
(* parameter.  The code does not do this for every key: the replacements   *)
(* of get_overview rewrite a key that holds their patterns (see C15).      *)
(***************************************************************************)
C17_OverviewDropsLanguage ==
    /\ (outcome.op = "get_overview" /\ outcome.http > 0)
           => /\ outcome.url[2] = "onecall/overview?"
              /\ CountOf(outcome.url, "lang=") = 0
              /\ ParamValue(outcome.url, "lat=") = ParamValue(client.url, "lat=")
              /\ ParamValue(outcome.url, "lon=") = ParamValue(client.url, "lon=")
              /\ ParamValue(outcome.url, "units=") = given.units
              /\ CarriesKey(outcome.url, given.api_key)
    /\ (/\ outcome.op \in {"OneCallAPI.get_weather", "get_timed_weather",
                           "get_aggregation"}
        /\ outcome.http > 0)
           => /\ CountOf(outcome.url, "lang=") >= 1
              /\ \E i \in 1..Len(outcome.url) :
                     /\ outcome.url[i] = "lang="
                     /\ TakeValue(SubSeq(outcome.url, i + 1, Len(outcome.url)))
                            = given.language

(***************************************************************************)
(* C18  For the status codes a server can send, 100 to 599, no operation   *)
(* takes the SubscriptionLevel branch: it is taken for the status 400000   *)
(* only, and the status 400 takes the generic branch.  (The branch shows   *)
(* in the error the caller gets, which names the class the raise statement *)
(* called.)                                                                *)
(***************************************************************************)
C18_NoSubscriptionLevel ==
    outcome.http > 0 =>
        /\ outcome.status \in 100..599
               => /\ outcome.type # "SubscriptionLevelError"
                  /\ outcome.text # "SubscriptionLevelError() takes no arguments"
        /\ outcome.text = "SubscriptionLevelError() takes no arguments"
               => outcome.status = 400000
        /\ outcome.status = 400
               => /\ outcome.kind = "raise"
                  /\ outcome.text = "OpenWeatherMapException() takes no arguments"

\* a response with status 400 has taken the generic branch
C18_Witness ==
    /\ outcome.http = 1
    /\ outcome.status = 400
    /\ outcome.kind = "raise"
    /\ outcome.text = "OpenWeatherMapException() takes no arguments"

====
